---------------------------- MODULE Spec2Model ----------------------------
(***************************************************************************)
(* Model of the form intake handler of src/main.py: the POST /submit-form/ *)
(* route `submit_form`, the pydantic model `FormData` that guards it, and  *)
(* the tables users, user_tools, answers (with the constraints the schema  *)
(* declares: primary keys drawn from sequences, UNIQUE(users.email), and   *)
(* the foreign keys user_tools.user_id, user_tools.tool_id,                *)
(* answers.user_tool_id, answers.question_id).                             *)
(*                                                                         *)
(* Strings the code inspects character by character (fullName, the email,  *)
(* answer_text) are sequences of one-character strings.  Every form is     *)
(* well typed (strings where FormData declares str, integer lists where it *)
(* declares List[int]); the only FormData check that can fail is the one   *)
(* of EmailStr.  A statement fails only on a constraint the schema         *)
(* declares; the storage itself stays reachable.  The handler is a         *)
(* coroutine: one action is the code between two awaits, and the actions   *)
(* of different requests interleave.  The date columns of user_tools and   *)
(* the payments table play no part in the handler and are left out.        *)
(***************************************************************************)
EXTENDS Integers, Sequences, FiniteSets, TLC

(* ------------------------------ bounds --------------------------------- *)

\* Number of requests one run of the process receives.
MaxReq == 2

\* Length of the longest step array a form carries (above the 9 questions
\* the numbering assumes per step).
MaxLen == 10

\* Largest number of non-empty step arrays in one form of WideForms.
MaxNonEmpty == 2

(* ------------------------- program constants --------------------------- *)

\* tool_id=1 of the User_Tool the handler creates.
ToolId == 1

\* range(2, 9): the first step and the stop of the loop over the steps.
FirstStep == 2

StopStep == 9

\* The multiplier of (step - 2) * 9 + index + 1.
QuestionsPerStep == 9

Reqs == 1..MaxReq

Steps == FirstStep..(StopStep - 1)

(* ------------------------------ strings -------------------------------- *)

Digit == <<"0", "1", "2", "3", "4", "5", "6", "7", "8", "9">>

RECURSIVE NatToStr(_)
\* The decimal digits of a natural number, most significant first.
NatToStr(n) ==
    IF n < 10 THEN <<Digit[n + 1]>>
    ELSE NatToStr(n \div 10) \o <<Digit[(n % 10) + 1]>>

\* str(answer_value) for an int.
IntToStr(v) == IF v < 0 THEN <<"-">> \o NatToStr(-v) ELSE NatToStr(v)

\* Index of the first occurrence of character c in s, 0 when there is none.
FirstIndex(s, c) ==
    IF \E i \in 1..Len(s) : s[i] = c
    THEN CHOOSE i \in 1..Len(s) : s[i] = c /\ \A j \in 1..(i - 1) : s[j] # c
    ELSE 0

\* s.split(' ', 1): the list of the parts, cut at the first space only.
SplitOnce(s) ==
    LET i == FirstIndex(s, " ")
    IN  IF i = 0 THEN <<s>>
        ELSE <<SubSeq(s, 1, i - 1), SubSeq(s, i + 1, Len(s))>>

\* EmailStr: one "@" with a non-empty local part before it and, after it, a
\* domain that holds a "." neither first nor last.
ValidEmail(e) ==
    LET at == FirstIndex(e, "@")
        dom == SubSeq(e, at + 1, Len(e))
        dot == FirstIndex(dom, ".")
    IN  /\ at > 1
        /\ FirstIndex(dom, "@") = 0
        /\ dot > 1
        /\ dom[Len(dom)] # "."

(* ------------------------------- forms --------------------------------- *)

ProfileFields ==
    {"telephoneNumber", "professionalStatus", "industry", "organisation",
     "jobLevel", "department", "location"}

\* getattr(form_data, f"step{step}Data")
StepData(f, step) ==
    CASE step = 2 -> f.step2Data
      [] step = 3 -> f.step3Data
      [] step = 4 -> f.step4Data
      [] step = 5 -> f.step5Data
      [] step = 6 -> f.step6Data
      [] step = 7 -> f.step7Data
      [] step = 8 -> f.step8Data

\* The checks of FormData: every field is of its declared type by
\* construction, so what remains is EmailStr.  str accepts the empty string.
ValidFormData(f) == ValidEmail(f.emailAddress)

\* A form: fullName, emailAddress, the profile field `empty` (or "none")
\* left as the empty string, and the step arrays st (a function on Steps).
MkForm(name, email, empty, st) ==
    [fullName           |-> name,
     telephoneNumber    |-> IF empty = "telephoneNumber" THEN "" ELSE "0700",
     emailAddress       |-> email,
     professionalStatus |-> IF empty = "professionalStatus" THEN "" ELSE "employed",
     industry           |-> IF empty = "industry" THEN "" ELSE "tech",
     organisation       |-> IF empty = "organisation" THEN "" ELSE "acme",
     jobLevel           |-> IF empty = "jobLevel" THEN "" ELSE "senior",
     department         |-> IF empty = "department" THEN "" ELSE "it",
     location           |-> IF empty = "location" THEN "" ELSE "nairobi",
     step2Data |-> st[2], step3Data |-> st[3], step4Data |-> st[4],
     step5Data |-> st[5], step6Data |-> st[6], step7Data |-> st[7],
     step8Data |-> st[8]]

NameJane == <<"J">>

NameJaneDoe == <<"J", " ", "D">>

NameJaneMaryDoe == <<"J", " ", "M", " ", "D">>

Names == {<<>>, NameJane, NameJaneDoe, NameJaneMaryDoe}

EmailA == <<"a", "@", "x", ".", "i">>

EmailB == <<"b", "@", "x", ".", "i">>

NotAnEmail == <<"n", "o", ".", "i">>

Emails == {EmailA, EmailB, NotAnEmail}

\* The array of n integers v, v+1, ...
Ramp(n, v) == [i \in 1..n |-> v + i - 1]

NoSteps == [s \in Steps |-> <<>>]

StepArrays == {<<>>, <<12>>, <<-7, 105>>, Ramp(MaxLen, -3)}

\* Step arrays with at most MaxNonEmpty non-empty steps.
WideSteps ==
    {st \in [Steps -> StepArrays] :
        Cardinality({s \in Steps : st[s] # <<>>}) <= MaxNonEmpty}

\* Forms that vary the identity fields over two step layouts, and forms that
\* vary the step arrays for one identity.
WideForms ==
    {MkForm(n, e, x, st) :
        n \in Names, e \in Emails, x \in ProfileFields \cup {"none"},
        st \in {NoSteps, [NoSteps EXCEPT ![2] = <<1, 2>>]}}
    \cup {MkForm(NameJaneDoe, EmailB, "none", st) : st \in WideSteps}

\* The forms of concurrent requests: no answers, answers in the first and
\* the last step, and a last step longer than its 9 questions.
SmallForms ==
    {MkForm(n, e, "none", st) :
        n \in {NameJane, NameJaneMaryDoe}, e \in Emails,
        st \in {NoSteps,
                [NoSteps EXCEPT ![2] = <<1, 2>>, ![8] = <<12>>],
                [NoSteps EXCEPT ![8] = Ramp(MaxLen, -3)]}}

\* The submission a database may hold from an earlier run of the process.
PriorForm == MkForm(NameJaneDoe, EmailA, "none", NoSteps)

NoForm == MkForm(<<>>, <<>>, "none", NoSteps)

(* ------------------------------- state --------------------------------- *)

VARIABLES
    diagnostic_tools,  \* the tool_id values of the rows of diagnostic_tools
    questions,         \* the question_id values of the rows of questions
    users,             \* the rows of users
    user_tools,        \* the rows of user_tools
    answers,           \* the rows of answers
    users_seq,         \* next value of the sequence of users.user_id
    user_tools_seq,    \* next value of the sequence of user_tools.user_tool_id
    answers_seq,       \* next value of the sequence of answers.answer_id
    pc,                \* per request: the await the coroutine stands at
    form,              \* per request: form_data
    local,             \* per request: first_name, last_name, user, user_tool
    session,           \* per request: the objects added to db and not yet flushed
    response           \* per request: what the caller received

vars ==
    <<diagnostic_tools, questions, users, user_tools, answers, users_seq,
      user_tools_seq, answers_seq, pc, form, local, session, response>>

tables == <<users, user_tools, answers>>

seeds == <<diagnostic_tools, questions>>

sequences == <<users_seq, user_tools_seq, answers_seq>>

NoResponse == [status |-> 0, detail |-> "none"]

NoLocal ==
    [first_name |-> <<>>, last_name |-> <<>>, user_id |-> 0, user_tool_id |-> 0]

\* What the schema bootstrap and the external seeding leave behind:
\* create_all creates empty tables; the seeding adds tool 1 and its
\* 7 * 9 questions, or the tool alone.
SeedStates ==
    {<<{}, {}>>, <<{ToolId}, {}>>,
     <<{ToolId}, 1..((StopStep - FirstStep) * QuestionsPerStep)>>}

InitRequests ==
    /\ pc = [r \in Reqs |-> "idle"]
    /\ form = [r \in Reqs |-> NoForm]
    /\ local = [r \in Reqs |-> NoLocal]
    /\ session = [r \in Reqs |-> <<>>]
    /\ response = [r \in Reqs |-> NoResponse]

Init ==
    /\ \E s \in SeedStates :
        /\ diagnostic_tools = s[1]
        /\ questions = s[2]
    /\ users = {}
    /\ user_tools = {}
    /\ answers = {}
    /\ users_seq = 1
    /\ user_tools_seq = 1
    /\ answers_seq = 1
    /\ InitRequests

(* ------------------------------ objects -------------------------------- *)

\* User(first_name=..., ..., location=...)
UserObject(f, first, last) ==
    [first_name          |-> first,
     last_name           |-> last,
     telephone_number    |-> f.telephoneNumber,
     email               |-> f.emailAddress,
     professional_status |-> f.professionalStatus,
     industry            |-> f.industry,
     organization        |-> f.organisation,
     job_level           |-> f.jobLevel,
     department          |-> f.department,
     location            |-> f.location]

UserRow(id, o) ==
    [user_id             |-> id,
     first_name          |-> o.first_name,
     last_name           |-> o.last_name,
     telephone_number    |-> o.telephone_number,
     email               |-> o.email,
     professional_status |-> o.professional_status,
     industry            |-> o.industry,
     organization        |-> o.organization,
     job_level           |-> o.job_level,
     department          |-> o.department,
     location            |-> o.location]

UserToolObjectLatest(uid) == [user_id |-> users_seq - 1, tool_id |-> ToolId]

\* User_Tool(user_id=user.user_id, tool_id=1)
UserToolObject(uid) == [user_id |-> uid, tool_id |-> ToolId]

UserToolRow(id, o) ==
    [user_tool_id |-> id, user_id |-> o.user_id, tool_id |-> o.tool_id]

QuestionIdFromZero(step, index) ==
    (step - FirstStep) * QuestionsPerStep + index

\* (step - 2) * 9 + index + 1, index counted from 0.
QuestionId(step, index) == (step - FirstStep) * QuestionsPerStep + index + 1

\* The Answer objects of one step: enumerate(step_data).
StepAnswers(step, data, utid) ==
    [i \in 1..Len(data) |->
        [user_tool_id |-> utid,
         question_id  |-> QuestionId(step, i - 1),
         answer_text  |-> IntToStr(data[i])]]

RECURSIVE LoopSteps(_, _, _, _)
\* for step in range(step, stop): the Answer objects in the order of db.add.
LoopSteps(f, step, stop, utid) ==
    IF step >= stop THEN <<>>
    ELSE StepAnswers(step, StepData(f, step), utid)
            \o LoopSteps(f, step + 1, stop, utid)

AnswerObjectsShort(f, utid) == LoopSteps(f, FirstStep, StopStep - 1, utid)

\* Lines 189-197: the Answer objects of all the steps.
AnswerObjects(f, utid) == LoopSteps(f, FirstStep, StopStep, utid)

AnswerRow(id, o) ==
    [answer_id    |-> id,
     user_tool_id |-> o.user_tool_id,
     question_id  |-> o.question_id,
     answer_text  |-> o.answer_text]

(* ---------------------------- constraints ------------------------------ *)

UniqueEmailNotEnforced(o) == TRUE

\* UNIQUE(users.email)
UniqueEmailOk(o) == \A u \in users : u.email # o.email

\* FOREIGN KEY user_tools.user_id -> users, user_tools.tool_id -> diagnostic_tools
UserToolFkOk(o) ==
    /\ \E u \in users : u.user_id = o.user_id
    /\ o.tool_id \in diagnostic_tools

\* FOREIGN KEY answers.user_tool_id -> user_tools, answers.question_id -> questions
AnswerFkOk(o) ==
    /\ \E t \in user_tools : t.user_tool_id = o.user_tool_id
    /\ o.question_id \in questions

\* Position of the first object of the flush that breaks a foreign key, 0
\* when none does.
FirstBad(objs) ==
    IF \E i \in 1..Len(objs) : ~AnswerFkOk(objs[i])
    THEN CHOOSE i \in 1..Len(objs) :
            ~AnswerFkOk(objs[i]) /\ \A j \in 1..(i - 1) : AnswerFkOk(objs[j])
    ELSE 0

(* ------------------------------ responses ------------------------------ *)

Ok200 == [status |-> 200, detail |-> "Form submitted successfully"]

Err422 == [status |-> 422, detail |-> "ValidationError"]

ErrValue == [status |-> 500, detail |-> "ValueError"]

ErrUnique == [status |-> 500, detail |-> "UniqueViolation"]

ErrForeignKey == [status |-> 500, detail |-> "ForeignKeyViolation"]

(* ------------------------------- actions ------------------------------- *)

\* FormData rejects the body: the handler is never called.
Reject(r, F) ==
    /\ pc[r] = "idle"
    /\ \E f \in F :
        /\ ~ValidFormData(f)
        /\ form' = [form EXCEPT ![r] = f]
    /\ pc' = [pc EXCEPT ![r] = "responded"]
    /\ response' = [response EXCEPT ![r] = Err422]
    /\ UNCHANGED <<seeds, tables, sequences, local, session>>

\* Line 161 with a split of other than two parts: the unpacking raises
\* ValueError.
SplitFail(r, F) ==
    /\ pc[r] = "idle"
    /\ \E f \in F :
        /\ ValidFormData(f)
        /\ Len(SplitOnce(f.fullName)) # 2
        /\ form' = [form EXCEPT ![r] = f]
    /\ pc' = [pc EXCEPT ![r] = "responded"]
    /\ response' = [response EXCEPT ![r] = ErrValue]
    /\ UNCHANGED <<seeds, tables, sequences, local, session>>

\* Lines 161-176: split the name, build the User, db.add(user); the
\* coroutine then awaits the commit of line 177.
AddUser(r, F) ==
    /\ pc[r] = "idle"
    /\ \E f \in F :
        /\ ValidFormData(f)
        /\ Len(SplitOnce(f.fullName)) = 2
        /\ form' = [form EXCEPT ![r] = f]
        /\ LET parts == SplitOnce(f.fullName)
           IN  /\ local' = [local EXCEPT ![r].first_name = parts[1],
                                         ![r].last_name = parts[2]]
               /\ session' = [session EXCEPT
                                ![r] = <<UserObject(f, parts[1], parts[2])>>]
    /\ pc' = [pc EXCEPT ![r] = "commitUser"]
    /\ UNCHANGED <<seeds, tables, sequences, response>>

\* Line 177: the INSERT into users succeeds and the transaction commits.
CommitUserOk(r) ==
    /\ pc[r] = "commitUser"
    /\ UniqueEmailOk(session[r][1])
    /\ users' = users \cup {UserRow(users_seq, session[r][1])}
    /\ users_seq' = users_seq + 1
    /\ local' = [local EXCEPT ![r].user_id = users_seq]
    /\ session' = [session EXCEPT ![r] = <<>>]
    /\ pc' = [pc EXCEPT ![r] = "refreshUser"]
    /\ UNCHANGED <<seeds, user_tools, answers, user_tools_seq, answers_seq,
                   form, response>>

\* Line 177: the INSERT breaks UNIQUE(users.email); the exception leaves the
\* handler.  The sequence keeps the value the failed INSERT drew.
CommitUserDup(r) ==
    /\ pc[r] = "commitUser"
    /\ ~UniqueEmailOk(session[r][1])
    /\ users_seq' = users_seq + 1
    /\ session' = [session EXCEPT ![r] = <<>>]
    /\ pc' = [pc EXCEPT ![r] = "responded"]
    /\ response' = [response EXCEPT ![r] = ErrUnique]
    /\ UNCHANGED <<seeds, tables, user_tools_seq, answers_seq, form, local>>

\* Lines 178-184: refresh(user), build the User_Tool from user.user_id,
\* db.add(user_tool); the coroutine then awaits the commit of line 185.
RefreshUser(r) ==
    /\ pc[r] = "refreshUser"
    /\ \E u \in users :
        /\ u.user_id = local[r].user_id
        /\ session' = [session EXCEPT ![r] = <<UserToolObject(u.user_id)>>]
    /\ pc' = [pc EXCEPT ![r] = "commitTool"]
    /\ UNCHANGED <<seeds, tables, sequences, form, local, response>>

UsersAfterRollback(r) == {u \in users : u.user_id # local[r].user_id}

\* The users table after a failure of a later insert of the same handler:
\* no except clause, no rollback of what line 177 committed.
UsersAfterFailure(r) == users

\* Line 185: the INSERT into user_tools succeeds and the transaction commits.
CommitToolOk(r) ==
    /\ pc[r] = "commitTool"
    /\ UserToolFkOk(session[r][1])
    /\ user_tools' = user_tools \cup {UserToolRow(user_tools_seq, session[r][1])}
    /\ user_tools_seq' = user_tools_seq + 1
    /\ local' = [local EXCEPT ![r].user_tool_id = user_tools_seq]
    /\ session' = [session EXCEPT ![r] = <<>>]
    /\ pc' = [pc EXCEPT ![r] = "refreshTool"]
    /\ UNCHANGED <<seeds, users, answers, users_seq, answers_seq, form, response>>

\* Line 185: the INSERT breaks a foreign key of user_tools.
CommitToolFail(r) ==
    /\ pc[r] = "commitTool"
    /\ ~UserToolFkOk(session[r][1])
    /\ user_tools_seq' = user_tools_seq + 1
    /\ users' = UsersAfterFailure(r)
    /\ session' = [session EXCEPT ![r] = <<>>]
    /\ pc' = [pc EXCEPT ![r] = "responded"]
    /\ response' = [response EXCEPT ![r] = ErrForeignKey]
    /\ UNCHANGED <<seeds, user_tools, answers, users_seq, answers_seq, form, local>>

\* Lines 186-197: refresh(user_tool), then the loop that adds one Answer per
\* value; the coroutine then awaits the commit of line 198.
RefreshTool(r) ==
    /\ pc[r] = "refreshTool"
    /\ \E t \in user_tools :
        /\ t.user_tool_id = local[r].user_tool_id
        /\ session' = [session EXCEPT ![r] = AnswerObjects(form[r], t.user_tool_id)]
    /\ pc' = [pc EXCEPT ![r] = "commitAnswers"]
    /\ UNCHANGED <<seeds, tables, sequences, form, local, response>>

\* The rows of one flush, numbered from the sequence in the order of db.add.
FlushedAnswers(objs) ==
    {AnswerRow(answers_seq + i - 1, objs[i]) : i \in 1..Len(objs)}

AnswersCommittedRowByRow(objs) ==
    answers \cup {AnswerRow(answers_seq + i - 1, objs[i]) :
                    i \in 1..(FirstBad(objs) - 1)}

\* The answers a failed commit of line 198 leaves behind: the one
\* transaction of the flush is rolled back as a whole.
AnswersAfterFailure(objs) == answers

\* Line 198: every INSERT into answers succeeds; one commit stores them all.
CommitAnswersOk(r) ==
    /\ pc[r] = "commitAnswers"
    /\ FirstBad(session[r]) = 0
    /\ answers' = answers \cup FlushedAnswers(session[r])
    /\ answers_seq' = answers_seq + Len(session[r])
    /\ session' = [session EXCEPT ![r] = <<>>]
    /\ pc' = [pc EXCEPT ![r] = "responded"]
    /\ response' = [response EXCEPT ![r] = Ok200]
    /\ UNCHANGED <<seeds, users, user_tools, users_seq, user_tools_seq, form, local>>

\* Line 198: an INSERT breaks a foreign key of answers.  The sequence keeps
\* the values drawn up to the failing row (row by row) or for the whole
\* batch (one multi-row statement).
CommitAnswersFail(r) ==
    /\ pc[r] = "commitAnswers"
    /\ FirstBad(session[r]) # 0
    /\ \E drawn \in {FirstBad(session[r]), Len(session[r])} :
        answers_seq' = answers_seq + drawn
    /\ answers' = AnswersAfterFailure(session[r])
    /\ users' = UsersAfterFailure(r)
    /\ session' = [session EXCEPT ![r] = <<>>]
    /\ pc' = [pc EXCEPT ![r] = "responded"]
    /\ response' = [response EXCEPT ![r] = ErrForeignKey]
    /\ UNCHANGED <<seeds, user_tools, users_seq, user_tools_seq, form, local>>

\* One step of request r, its form drawn from F.
Handle(r, F) ==
    \/ Reject(r, F)
    \/ SplitFail(r, F)
    \/ AddUser(r, F)
    \/ CommitUserOk(r)
    \/ CommitUserDup(r)
    \/ RefreshUser(r)
    \/ CommitToolOk(r)
    \/ CommitToolFail(r)
    \/ RefreshTool(r)
    \/ CommitAnswersOk(r)
    \/ CommitAnswersFail(r)

\* Concurrent requests over the small forms.
Next == \E r \in Reqs : Handle(r, SmallForms)

Spec == Init /\ [][Next]_vars

\* The database as an earlier run may have left it: empty, or holding the
\* rows of one earlier submission of PriorForm (its User_Tool row only
\* where tool 1 is seeded).
InitWide ==
    /\ \E s \in SeedStates, prior \in BOOLEAN :
        LET parts == SplitOnce(PriorForm.fullName)
            o == UserObject(PriorForm, parts[1], parts[2])
        IN  /\ diagnostic_tools = s[1]
            /\ questions = s[2]
            /\ users = IF prior THEN {UserRow(1, o)} ELSE {}
            /\ user_tools = IF prior /\ UserToolObject(1).tool_id \in s[1]
                            THEN {UserToolRow(1, UserToolObject(1))} ELSE {}
            /\ users_seq = IF prior THEN 2 ELSE 1
            /\ user_tools_seq = IF prior THEN 2 ELSE 1
    /\ answers = {}
    /\ answers_seq = 1
    /\ InitRequests

\* One request over the wide forms.
NextWide == Handle(1, WideForms)

SpecWide == InitWide /\ [][NextWide]_vars


(* ----------------------- what a request created ------------------------ *)

\* A fullName with a space in it.
HasSpace(name) == \E i \in 1..Len(name) : name[i] = " "

\* One of the seven profile fields is the empty string.
HasEmptyField(f) ==
    \/ f.telephoneNumber = ""
    \/ f.professionalStatus = ""
    \/ f.industry = ""
    \/ f.organisation = ""
    \/ f.jobLevel = ""
    \/ f.department = ""
    \/ f.location = ""

\* len(step2Data) + ... + len(step8Data)
TotalLen(f) ==
    Len(f.step2Data) + Len(f.step3Data) + Len(f.step4Data) + Len(f.step5Data)
        + Len(f.step6Data) + Len(f.step7Data) + Len(f.step8Data)

\* The rows that hang off the user id request r holds.
UsersOf(r) == {u \in users : u.user_id = local[r].user_id}

ToolsOf(r) == {t \in user_tools : t.user_id = local[r].user_id}

AnswersOf(r) ==
    {a \in answers : \E t \in ToolsOf(r) : a.user_tool_id = t.user_tool_id}

\* The rows that carry the email of request r's form.
UsersWithEmailOf(r) == {u \in users : u.email = form[r].emailAddress}

\* The User, User_Tool and Answer inserts of form f meet no constraint
\* other than the uniqueness of the email.
ForeignKeysSeeded(f) ==
    /\ 1 \in diagnostic_tools
    /\ \A s \in 2..8 : \A i \in 0..(Len(StepData(f, s)) - 1) :
        ((s - 2) * 9 + i + 1) \in questions

\* Exactly one User row, one User_Tool row and one Answer row per value.
CreatedExactly(r) ==
    /\ Cardinality(UsersOf(r)) = 1
    /\ \A u \in UsersOf(r) : u.email = form[r].emailAddress
    /\ Cardinality(ToolsOf(r)) = 1
    /\ Cardinality(AnswersOf(r)) = TotalLen(form[r])
    /\ \A a \in AnswersOf(r) : a.user_tool_id = local[r].user_tool_id

DigitValue(c) == CHOOSE d \in 0..9 : Digit[d + 1] = c

RECURSIVE DigitsValue(_)
DigitsValue(t) ==
    IF Len(t) = 0 THEN 0
    ELSE 10 * DigitsValue(SubSeq(t, 1, Len(t) - 1)) + DigitValue(t[Len(t)])

\* The integer a decimal text denotes.
DecimalValue(t) ==
    IF t[1] = "-" THEN 0 - DigitsValue(Tail(t)) ELSE DigitsValue(t)

(* -------------------------------- C1 ----------------------------------- *)

\* C1 as stated: every handled submission with a valid payload, a space in
\* fullName and an email that was not stored at the User insert has created
\* exactly one User row, one User_Tool row and TotalLen Answer rows.
C1_AsStated ==
    \A r \in Reqs :
        ( /\ pc[r] = "responded"
          /\ ValidFormData(form[r])
          /\ HasSpace(form[r].fullName)
          /\ response[r] # ErrUnique )
        => CreatedExactly(r)

\* C1 amended: every handled submission whose three commits succeeded has
\* created exactly one User row, one User_Tool row and
\* len(step2Data)+...+len(step8Data) Answer rows, all of them carrying the
\* user_tool_id of that User_Tool row; and the commits of a valid
\* submission (a space in fullName) do succeed when its email was not
\* stored at the User insert and tool 1 and every computed question id are
\* stored rows.
C1_CreatedRows ==
    \A r \in Reqs :
        /\ response[r] = Ok200 => CreatedExactly(r)
        /\ ( /\ pc[r] = "responded"
             /\ ValidFormData(form[r])
             /\ HasSpace(form[r].fullName)
             /\ response[r] # ErrUnique
             /\ ForeignKeysSeeded(form[r]) )
           => response[r] = Ok200

\* Two requests answered with success, one of them with answers in the
\* first and the last step.
C1_Witness ==
    \E r, q \in Reqs :
        /\ r # q
        /\ response[r] = Ok200
        /\ response[q] = Ok200
        /\ Len(form[r].step2Data) = 2
        /\ Len(form[r].step8Data) = 1
        /\ Cardinality(AnswersOf(r)) = 3

(* -------------------------------- C2 ----------------------------------- *)

\* C2: of a submission answered with success, the value at 0-based position
\* i of step s (2..8) has an Answer row with question_id (s-2)*9+i+1 whose
\* answer_text denotes the value, and every Answer row of the submission is
\* the row of such a value; arrays longer than 9 included.
C2_QuestionIds ==
    \A r \in Reqs :
        response[r] = Ok200 =>
            /\ \A s \in 2..8 : \A i \in 0..(Len(StepData(form[r], s)) - 1) :
                \E a \in AnswersOf(r) :
                    /\ a.question_id = (s - 2) * 9 + i + 1
                    /\ DecimalValue(a.answer_text) = StepData(form[r], s)[i + 1]
                    /\ a.answer_text[1] = "-" <=> StepData(form[r], s)[i + 1] < 0
            /\ \A a \in AnswersOf(r) :
                \E s \in 2..8 : \E i \in 0..(Len(StepData(form[r], s)) - 1) :
                    /\ a.question_id = (s - 2) * 9 + i + 1
                    /\ DecimalValue(a.answer_text) = StepData(form[r], s)[i + 1]

\* A submission answered with success whose step 3 holds more than 9 values
\* (question ids 10..19 and beyond) next to a non-empty step 4.
C2_Witness ==
    \E r \in Reqs :
        /\ response[r] = Ok200
        /\ Len(form[r].step3Data) > 9
        /\ Len(form[r].step4Data) > 0
        /\ \E a \in AnswersOf(r) : a.question_id = 19 /\ a.answer_text = <<"6">>
        /\ \E a \in AnswersOf(r) : a.question_id = 10 /\ a.answer_text = <<"-", "3">>

(* -------------------------------- C3 ----------------------------------- *)

\* C3 as stated: a handled submission whose non-empty fullName holds no
\* space, its other fields valid and non-empty, was answered with a ValidationError of
\* the input validation and has created no row.
C3_AsStated ==
    \A r \in Reqs :
        ( /\ pc[r] = "responded"
          /\ form[r].fullName # <<>>
          /\ ~HasSpace(form[r].fullName)
          /\ ValidEmail(form[r].emailAddress)
          /\ ~HasEmptyField(form[r]) )
        => ( /\ response[r] = Err422
             /\ UsersWithEmailOf(r) = {}
             /\ UsersOf(r) = {} /\ ToolsOf(r) = {} /\ AnswersOf(r) = {} )

(* -------------------------------- C4 ----------------------------------- *)

\* C4: a request whose email is the email of a stored User row when its
\* User insert runs ends there with the unique-constraint error, and that
\* step leaves users, user_tools and answers as they were.
C4_DuplicateEmail ==
    [][ \A r \in Reqs :
          ( /\ pc[r] = "commitUser"
            /\ UsersWithEmailOf(r) # {}
            /\ pc'[r] # pc[r] )
          => ( /\ pc'[r] = "responded"
               /\ response'[r] = ErrUnique
               /\ local'[r].user_id = 0
               /\ users' = users
               /\ user_tools' = user_tools
               /\ answers' = answers ) ]_vars

\* A request refused for its email while the row of that email is stored.
C4_Witness ==
    \E r \in Reqs :
        /\ response[r] = ErrUnique
        /\ UsersWithEmailOf(r) # {}
        /\ UsersOf(r) = {}

(* -------------------------------- C5 ----------------------------------- *)

\* C5 as stated: a handled submission with an empty profile field, its
\* fullName holding a space and its email valid and not stored at the User
\* insert, was rejected by the input validation and has created no row.
C5_AsStated ==
    \A r \in Reqs :
        ( /\ pc[r] = "responded"
          /\ HasEmptyField(form[r])
          /\ HasSpace(form[r].fullName)
          /\ ValidEmail(form[r].emailAddress)
          /\ response[r] # ErrUnique )
        => ( /\ response[r] = Err422
             /\ UsersOf(r) = {} /\ ToolsOf(r) = {} /\ AnswersOf(r) = {} )

(* -------------------------------- C6 ----------------------------------- *)

\* C6: a request whose User_Tool or Answer insert failed got an error, and
\* the User row it committed (and its User_Tool row, when the Answer insert
\* failed) is stored, now and in every later state.
C6_NoRollback ==
    \A r \in Reqs :
        response[r] = ErrForeignKey =>
            /\ response[r].status = 500
            /\ \E u \in users :
                /\ u.user_id = local[r].user_id
                /\ u.email = form[r].emailAddress
            /\ local[r].user_tool_id # 0 =>
                \E t \in user_tools :
                    /\ t.user_tool_id = local[r].user_tool_id
                    /\ t.user_id = local[r].user_id

\* One request failed in the User_Tool insert or another in the Answer
\* insert, and a further request has finished after it.
C6_Witness ==
    \E r, q \in Reqs :
        /\ r # q
        /\ response[r] = ErrForeignKey
        /\ local[r].user_tool_id # 0
        /\ UsersOf(r) # {}
        /\ ToolsOf(r) # {}
        /\ pc[q] = "responded"
        /\ local[q].user_id > local[r].user_id

(* -------------------------------- C7 ----------------------------------- *)

\* C7: no two stored User rows share an email, and of the requests that
\* carry one email at most one holds a committed User row.
C7_EmailUnique ==
    /\ \A u, v \in users : u.email = v.email => u = v
    /\ \A r, q \in Reqs :
        ( /\ r # q
          /\ pc[r] # "idle" /\ pc[q] # "idle"
          /\ form[r].emailAddress = form[q].emailAddress )
        => (local[r].user_id = 0 \/ local[q].user_id = 0)

\* Two requests with one email were both waiting for their User insert; one
\* committed and is still in flight, the other was refused.
C7_Witness ==
    \E r, q \in Reqs :
        /\ r # q
        /\ form[r].emailAddress = form[q].emailAddress
        /\ pc[r] \in {"refreshUser", "commitTool", "refreshTool", "commitAnswers"}
        /\ local[r].user_id # 0
        /\ response[q] = ErrUnique

(* -------------------------------- C8 ----------------------------------- *)

\* C8: every stored User_Tool row was created by a request that holds its
\* id and whose own User row, stored, it references; every stored Answer
\* row references a stored User_Tool row of the request that created it; so
\* no request holds a User_Tool without its User, or Answers without its
\* User_Tool.
C8_WriteOrder ==
    /\ \A t \in user_tools :
        \E r \in Reqs :
            /\ local[r].user_tool_id = t.user_tool_id
            /\ local[r].user_id = t.user_id
            /\ \E u \in users :
                u.user_id = t.user_id /\ u.email = form[r].emailAddress
    /\ \A a \in answers :
        \E r \in Reqs :
            /\ local[r].user_tool_id = a.user_tool_id
            /\ response[r] = Ok200
            /\ \E t \in user_tools :
                t.user_tool_id = a.user_tool_id /\ t.user_id = local[r].user_id
    /\ \A r \in Reqs :
        /\ local[r].user_tool_id # 0 => local[r].user_id # 0
        /\ pc[r] \in {"idle", "commitUser"} => UsersOf(r) = {}
        /\ pc[r] \in {"idle", "commitUser", "refreshUser", "commitTool"}
            => ToolsOf(r) = {}
        /\ pc[r] # "responded" => AnswersOf(r) = {}

\* Two interleaved requests: the one that committed its User row first
\* committed its User_Tool row second, and answers are stored.
C8_Witness ==
    \E r, q \in Reqs :
        /\ local[r].user_id # 0
        /\ local[r].user_id < local[q].user_id
        /\ local[q].user_tool_id # 0
        /\ local[q].user_tool_id < local[r].user_tool_id
        /\ AnswersOf(r) # {}
        /\ AnswersOf(q) # {}

(* -------------------------------- C9 ----------------------------------- *)

\* C9: in every state, of every request none or all of the Answer rows are
\* stored; a request whose Answer commit failed has none, and only a
\* request answered with success has any.
C9_AllOrNothing ==
    \A r \in Reqs :
        /\ Cardinality(AnswersOf(r)) \in {0, TotalLen(form[r])}
        /\ response[r] = ErrForeignKey => AnswersOf(r) = {}
        /\ AnswersOf(r) # {} => response[r] = Ok200

\* An Answer commit failed at its last row, after nine rows that broke no
\* constraint, next to a request whose answers are stored.
C9_Witness ==
    \E r, q \in Reqs :
        /\ response[r] = ErrForeignKey
        /\ local[r].user_tool_id # 0
        /\ Len(form[r].step8Data) > 9
        /\ 55 \in questions
        /\ AnswersOf(r) = {}
        /\ AnswersOf(q) # {}

(* -------------------------------- C10 ---------------------------------- *)

\* A request that committed its User row and then failed.
Orphaned(r) == response[r] = ErrForeignKey

\* C10: once a request has committed its User row and failed in the
\* User_Tool or Answer phase, it stays so; the rows under its user never
\* change and fall short of a full answer set; and every request that then
\* runs its User insert with that email ends with the unique-constraint
\* error and adds no row.
C10_OrphanForever ==
    [][ \A r \in Reqs :
          Orphaned(r) =>
            /\ Orphaned(r)'
            /\ UsersWithEmailOf(r)' = UsersOf(r)
            /\ ToolsOf(r)' = ToolsOf(r)
            /\ AnswersOf(r)' = {}
            /\ (ToolsOf(r) = {} \/ Cardinality(AnswersOf(r)) < TotalLen(form[r]))
            /\ \A q \in Reqs :
                ( /\ form[q].emailAddress = form[r].emailAddress
                  /\ pc[q] = "commitUser"
                  /\ pc'[q] # pc[q] )
                => (response'[q] = ErrUnique /\ tables' = tables) ]_vars

\* After a failure in the User_Tool or Answer phase, a resubmission of the
\* same email was refused.
C10_Witness ==
    \E r, q \in Reqs :
        /\ r # q
        /\ Orphaned(r)
        /\ form[q].emailAddress = form[r].emailAddress
        /\ response[q] = ErrUnique
        /\ users_seq = local[r].user_id + 2

=============================================================================
